---- MODULE Spec2Model ----
(***************************************************************************)
(* Door Status sensor (custom_components/door_status/sensor.py).           *)
(*                                                                         *)
(* The model follows one DoorStatusSensor object and the Home Assistant    *)
(* event loop that drives it.  A coroutine runs without interruption       *)
(* between two awaits, so _async_update is two atomic steps: the part      *)
(* before `await async_get_image` (StartUpdate: PollTick, InitialUpdate,   *)
(* SetupRefresh, ConfigUpdate) and the part after it (ApplySample or       *)
(* FailUpdate).                                                            *)
(*                                                                         *)
(* Percentages are floats rounded to one decimal (sensor.py:253); they are *)
(* held here as integer tenths of a percent, and the integer configuration *)
(* values are multiplied by Scale where the code compares them with a      *)
(* percentage.  Arithmetic on tenths is exact.  Time is in whole seconds.  *)
(*                                                                         *)
(* self._last_update_time is assigned (sensor.py:90, 276) and read nowhere *)
(* in the repository; the model does not carry it.                         *)
(***************************************************************************)
EXTENDS Integers, Sequences, FiniteSets

--------------------------------------------------------------------------
(* Bounds of the model *)

\* The clock runs from 0 to MaxTime seconds.
MaxTime == 6

\* At most MaxSamples samples are taken (applied or still being fetched).
MaxSamples == 2

\* At most MaxRefreshes samples are taken by the forced refreshes that
\* follow one another.
MaxRefreshes == 3

\* At most MaxInflight update cycles await their camera image at once.
MaxInflight == 2

\* The images sampled are at most MaxSide pixels wide and high.
MaxSide == 4

\* A sample set has at most MaxPixels pixels.
MaxPixels == 3

--------------------------------------------------------------------------
(* Constants of the program *)

\* round(float(match_percent), 1): one decimal digit, i.e. tenths.
Scale == 10

DEFAULT_IDLE_INTERVAL == 10
DEFAULT_ACTIVE_INTERVAL == 1
DEFAULT_CHANGE_THRESHOLD == 10
DEFAULT_CLOSED_POSITION == 90
DEFAULT_OPEN_POSITION == 10
DEFAULT_TRANSITION_THRESHOLD == 5
DEFAULT_STATE_TIMEOUT == 5

STATE_OPEN == "open"
STATE_CLOSED == "closed"
STATE_OPENING == "opening"
STATE_CLOSING == "closing"
STATE_PARTIALLY_OPEN == "partially_open"
STATE_UNKNOWN == "unknown"

NEXT_ACTION_OPEN == "open"
NEXT_ACTION_CLOSE == "close"
NEXT_ACTION_UNKNOWN == "unknown"

\* What Home Assistant writes as the state of an entity whose `available`
\* property is False.
STATE_UNAVAILABLE == "unavailable"

\* self._max_history_length
max_history_length == 20

\* Python's None, for an Optional[float] percentage or an absent timer.
None == -1

\* A state attribute that the stored state does not carry at all.
Missing == -2

--------------------------------------------------------------------------
(* Inputs *)

\* The configuration of a config entry created with the defaults of const.py.
DefaultConfig ==
    [ open_position        |-> DEFAULT_OPEN_POSITION,
      closed_position      |-> DEFAULT_CLOSED_POSITION,
      transition_threshold |-> DEFAULT_TRANSITION_THRESHOLD,
      change_threshold     |-> DEFAULT_CHANGE_THRESHOLD,
      state_timeout        |-> DEFAULT_STATE_TIMEOUT,
      idle_interval        |-> DEFAULT_IDLE_INTERVAL,
      active_interval      |-> DEFAULT_ACTIVE_INTERVAL ]

\* A configuration a user can enter in the options flow (every field is an
\* unvalidated int): the Open band (<= 50) and the Closed band (>= 45)
\* overlap, and 50.0 is exactly open_position + transition_threshold.
OverlapConfig ==
    [ open_position        |-> 35,
      closed_position      |-> 60,
      transition_threshold |-> 15,
      change_threshold     |-> 20,
      state_timeout        |-> 4,
      idle_interval        |-> 4,
      active_interval      |-> 2 ]

Configs == {DefaultConfig, OverlapConfig}

\* The match percentages (in tenths) a camera image can produce in the model:
\* 0.0, 8.0, 50.0, 70.0 and 92.0.
Percents == {0, 80, 500, 700, 920}

\* `async_call_later(self.hass, 5, _initial_update)`
INITIAL_UPDATE_DELAY == 5

DoorStates ==
    { STATE_OPEN, STATE_CLOSED, STATE_OPENING, STATE_CLOSING,
      STATE_PARTIALLY_OPEN, STATE_UNKNOWN }

NextActions == { NEXT_ACTION_OPEN, NEXT_ACTION_CLOSE, NEXT_ACTION_UNKNOWN }

--------------------------------------------------------------------------
(* State *)

VARIABLES
    config,             \* the fields set by _update_config_from_entry
    percent_value,      \* self._percent_value  (None or tenths)
    last_percent,       \* self._last_percent   (None or tenths)
    door_state,         \* self._door_state
    next_action,        \* self._next_action
    state_stable_since, \* self._state_stable_since
    unsub_update,       \* self._unsub_update: None, or the interval of the
                        \* interval tracker the handle cancels
    active_mode,        \* self._active_mode
    state_history,      \* self._state_history
    available,          \* self._available
    now,                \* dt_util.utcnow()
    phase,              \* "created", "added" (async_added_to_hass has run),
                        \* "removed" (async_will_remove_from_hass has run)
    timers,             \* the interval trackers alive in the event loop,
                        \* each with its interval and the time it is due
    initial_pending,    \* None, or the time the pending
                        \* async_call_later(5, _initial_update) is due
    setup_pending,      \* async_setup_entry has not yet called async_refresh
    tasks,              \* the _async_update coroutines awaiting their image,
                        \* in the order they were started
    ha_state,           \* the state last written by async_write_ha_state
    twin,               \* the fields of a second sensor that gets the same
                        \* calls, stored state and samples, configured with
                        \* a larger change_threshold
    goal,               \* the two labels between which the run that is
                        \* played has to move the sensor; none when the
                        \* run is not a prepared one
    line,               \* a call of _get_line_pixels: the size of the image,
                        \* the two endpoints, and the pixels returned once
                        \* the call has returned
    match,              \* one evaluation of "Calculate match percentage":
                        \* the pixels, the colour range, and current_percent
                        \* once it is computed
    ev                  \* what the last step did, when it ended an update
                        \* cycle (history variable)

vars ==
    << config, percent_value, last_percent, door_state, next_action,
       state_stable_since, unsub_update, active_mode,
       state_history, available, now, phase, timers, initial_pending,
       setup_pending, tasks, ha_state, twin, goal, line, match, ev >>

\* The sensor's own fields.
sensor_vars ==
    << percent_value, last_percent, door_state, next_action,
       state_stable_since, active_mode, state_history >>

--------------------------------------------------------------------------
(* Helpers *)

Abs(x) == IF x < 0 THEN -x ELSE x

\* Python truthiness of an Optional[float]: None and 0.0 are both false.
Truthy(x) == x # None /\ x # 0

\* Python's `a or b` on Optional[float] operands.
PyOr(a, b) == IF Truthy(a) THEN a ELSE b

\* The trackers ts without the first one of interval x (ts itself if there
\* is none).
RECURSIVE RemoveOne(_, _)
RemoveOne(ts, x) ==
    IF ts = << >> THEN << >>
    ELSE IF Head(ts).interval = x THEN Tail(ts)
    ELSE << Head(ts) >> \o RemoveOne(Tail(ts), x)

\* s without its i-th element.
RemoveAt(s, i) == [ j \in 1..(Len(s) - 1) |-> IF j < i THEN s[j] ELSE s[j + 1] ]

--------------------------------------------------------------------------
(* DoorStatusSensor._update_door_state *)

\* Faulty variant of percent_change: the operands are swapped.
percent_change_reversed(pv, lp) == PyOr(lp, pv) - pv

\* `change = self._percent_value - (self._last_percent or self._percent_value)`
percent_change(pv, lp) == pv - PyOr(lp, pv)

\* `moving = abs(change) >= self._change_threshold`
is_moving(change, cfg) == Abs(change) >= Scale * cfg.change_threshold

\* Faulty variant of in_open_band: the boundary is exclusive.
in_open_band_strict(pv, cfg) ==
    pv < Scale * (cfg.open_position + cfg.transition_threshold)

\* `self._percent_value <= self._open_position + self._transition_threshold`
in_open_band(pv, cfg) ==
    pv <= Scale * (cfg.open_position + cfg.transition_threshold)

\* `self._percent_value >= self._closed_position - self._transition_threshold`
in_closed_band(pv, cfg) ==
    pv >= Scale * (cfg.closed_position - cfg.transition_threshold)

\* The label and next action of the moving branch.
moving_state(change) ==
    IF change > 0
    THEN [ door_state |-> STATE_CLOSING, next_action |-> NEXT_ACTION_OPEN ]
    ELSE [ door_state |-> STATE_OPENING, next_action |-> NEXT_ACTION_CLOSE ]

\* Faulty variant of partially_open_action: the two tests read the label
\* held before the call, so a door that was Opening or Closing keeps its
\* direction.
partially_open_action_memory(ds0, assigned, pv, cfg) ==
    IF ds0 = STATE_OPENING THEN NEXT_ACTION_CLOSE
    ELSE IF ds0 = STATE_CLOSING THEN NEXT_ACTION_OPEN
    ELSE IF 2 * pv > Scale * (cfg.closed_position + cfg.open_position)
         THEN NEXT_ACTION_OPEN
         ELSE NEXT_ACTION_CLOSE

\* The next action of the partially-open branch.  ds0 is the label held
\* before the call and assigned the label the branch has just stored in
\* _door_state: the two tests on _door_state read the latter.
partially_open_action(ds0, assigned, pv, cfg) ==
    IF assigned = STATE_OPENING THEN NEXT_ACTION_CLOSE
    ELSE IF assigned = STATE_CLOSING THEN NEXT_ACTION_OPEN
    \* pv > (closed_position + open_position) / 2
    ELSE IF 2 * pv > Scale * (cfg.closed_position + cfg.open_position)
         THEN NEXT_ACTION_OPEN
         ELSE NEXT_ACTION_CLOSE

\* The label and next action _update_door_state assigns, and the value it
\* leaves in _last_percent, from the fields it reads: ds0 and na0 are the
\* label and next action held before the call, pv the current percent, lp0
\* the previous percent.
update_door_state(ds0, na0, pv, lp0, cfg) ==
    IF pv = None
    THEN [ door_state |-> STATE_UNKNOWN, next_action |-> NEXT_ACTION_UNKNOWN,
           last_percent |-> lp0 ]
    ELSE
    LET lp     == IF lp0 = None THEN pv ELSE lp0
        change == percent_change(pv, lp)
        moving == is_moving(change, cfg)
    IN  IF in_open_band(pv, cfg)
        THEN [ door_state |-> STATE_OPEN, next_action |-> NEXT_ACTION_CLOSE,
               last_percent |-> lp ]
        ELSE IF in_closed_band(pv, cfg)
        THEN [ door_state |-> STATE_CLOSED, next_action |-> NEXT_ACTION_OPEN,
               last_percent |-> lp ]
        ELSE IF moving
        THEN [ door_state |-> moving_state(change).door_state,
               next_action |-> moving_state(change).next_action,
               last_percent |-> lp ]
        ELSE IF pv > Scale * (cfg.open_position + cfg.transition_threshold)
        THEN [ door_state |-> STATE_PARTIALLY_OPEN,
               next_action |->
                   partially_open_action(ds0, STATE_PARTIALLY_OPEN, pv, cfg),
               last_percent |-> lp ]
        ELSE [ door_state |-> STATE_UNKNOWN,
               next_action |-> NEXT_ACTION_UNKNOWN, last_percent |-> lp ]

--------------------------------------------------------------------------
(* DoorStatusSensor._schedule_update *)

\* Faulty variant of schedule_update: the tracker in place is not cancelled.
schedule_update_keeping(ts, handle, active, cfg, t_now) ==
    LET interval == IF active THEN cfg.active_interval ELSE cfg.idle_interval
    IN  [ timers |-> Append(ts, [ interval |-> interval,
                                  due |-> t_now + interval ]),
          unsub_update |-> interval ]

\* The interval trackers and the handle after _schedule_update at time
\* t_now: the tracker the handle names is cancelled, and a new one is started
\* at the interval of the mode; it first fires one interval later.
schedule_update(ts, handle, active, cfg, t_now) ==
    LET interval == IF active THEN cfg.active_interval ELSE cfg.idle_interval
        kept     == IF handle # None THEN RemoveOne(ts, handle) ELSE ts
    IN  [ timers |-> Append(kept, [ interval |-> interval,
                                    due |-> t_now + interval ]),
          unsub_update |-> interval ]

\* `if self._unsub_update: self._unsub_update(); self._unsub_update = None`
cancel_update(ts, handle) ==
    [ timers |-> IF handle # None THEN RemoveOne(ts, handle) ELSE ts,
      unsub_update |-> None ]

--------------------------------------------------------------------------
(* The parts of DoorStatusSensor._async_update after the image arrived *)

\* Faulty variant of history_after: past the capacity the entry just added
\* is dropped (`pop()`).
history_after_keeping_oldest(h, p) ==
    IF Len(h) + 1 > max_history_length THEN h ELSE Append(h, p)

\* "Store in history (limited length)": append, then pop(0) past the
\* capacity.
history_after(h, p) ==
    LET appended == Append(h, p)
    IN  IF Len(appended) > max_history_length
        THEN Tail(appended) ELSE appended

\* Faulty variant of active_mode_switch: a missing _last_percent counts as
\* 0.0.
active_mode_switch_from_zero(p, lp, active, cfg) ==
    IF Abs(p - (IF lp = None THEN 0 ELSE lp)) >= Scale * cfg.change_threshold
    THEN [ active_mode |-> TRUE, reschedule |-> ~active ]
    ELSE [ active_mode |-> FALSE, reschedule |-> active ]

\* Faulty variant of active_mode_switch: the comparison is inverted.
active_mode_switch_inverted(p, lp, active, cfg) ==
    IF lp # None
    THEN IF Abs(p - lp) < Scale * cfg.change_threshold
         THEN [ active_mode |-> TRUE, reschedule |-> ~active ]
         ELSE [ active_mode |-> FALSE, reschedule |-> active ]
    ELSE [ active_mode |-> active, reschedule |-> FALSE ]

\* "Determine if we should switch to active mode": the mode after the test,
\* and whether _schedule_update is called.  lp is _last_percent as the cycle
\* found it (the rotation comes after this test).
active_mode_switch(p, lp, active, cfg) ==
    IF lp # None
    THEN IF Abs(p - lp) >= Scale * cfg.change_threshold
         THEN [ active_mode |-> TRUE, reschedule |-> ~active ]
         ELSE [ active_mode |-> FALSE, reschedule |-> active ]
    ELSE [ active_mode |-> active, reschedule |-> FALSE ]

\* Faulty variant of state_changed: every sample is classified.
state_changed_always(force, ds, p, lp, t_now, stable, cfg) == TRUE

\* Faulty variant of state_changed: the label Unknown does not force the
\* classification.
state_changed_unless_unknown(force, ds, p, lp, t_now, stable, cfg) ==
    IF force \/ p = None
    THEN TRUE
    ELSE \/ Abs(p - PyOr(lp, p)) >= Scale * cfg.transition_threshold
         \/ (t_now - stable) > cfg.state_timeout

\* Faulty variant of state_changed: the elapsed time is not looked at.
state_changed_without_timeout(force, ds, p, lp, t_now, stable, cfg) ==
    IF force \/ ds = STATE_UNKNOWN \/ p = None
    THEN TRUE
    ELSE Abs(p - PyOr(lp, p)) >= Scale * cfg.transition_threshold

\* "Determine if we should update HA state": state_changed.  p is the new
\* percent (already in _percent_value), lp the rotated _last_percent.
state_changed(force, ds, p, lp, t_now, stable, cfg) ==
    IF force \/ ds = STATE_UNKNOWN \/ p = None
    THEN TRUE
    ELSE \/ Abs(p - PyOr(lp, p)) >= Scale * cfg.transition_threshold
         \/ (t_now - stable) > cfg.state_timeout

\* Faulty variant of stable_since_after: the time is taken only when the
\* label changed.
stable_since_on_label_change(changed, old_state, new_state, t_now, stable) ==
    IF changed /\ new_state # old_state THEN t_now ELSE stable

\* _state_stable_since after `if state_changed:`: the time of the call when
\* the classification ran, whatever the old and the new label are.
stable_since_after(changed, old_state, new_state, t_now, stable) ==
    IF changed THEN t_now ELSE stable

\* Faulty variant of should_notify: every classification is published.
should_notify_always(force, old_state, new_state) == TRUE

\* `if force_update or self._door_state != old_state:` write and fire.
should_notify(force, old_state, new_state) ==
    force \/ new_state # old_state

\* The attributes async_write_ha_state publishes (extra_state_attributes),
\* with the state property.
written_state(ds, na, pv, lp, stable) ==
    [ state |-> ds, percent |-> pv, next_action |-> na, last_percent |-> lp,
      last_update |-> stable ]

NoState ==
    [ state |-> "none", percent |-> None, next_action |-> "none",
      last_percent |-> None, last_update |-> 0 ]

\* sensor.py lines 260 to 309 as a function of the fields f: the fields after
\* a cycle that sampled p at time t_now, whether the cycle switched the
\* polling mode, and whether it emitted the notification.
apply_sample(f, force, p, t_now, cfg) ==
    LET act == active_mode_switch(p, f.last_percent, f.active_mode, cfg)
        lp1 == f.percent_value
        sc  == state_changed(force, f.door_state, p, lp1, t_now,
                             f.state_stable_since, cfg)
        cls == update_door_state(f.door_state, f.next_action, p, lp1, cfg)
    IN  [ door_state |-> IF sc THEN cls.door_state ELSE f.door_state,
          next_action |-> IF sc THEN cls.next_action ELSE f.next_action,
          percent_value |-> p,
          last_percent |-> IF sc THEN cls.last_percent ELSE lp1,
          state_stable_since |->
              stable_since_after(sc, f.door_state, cls.door_state, t_now,
                                 f.state_stable_since),
          active_mode |-> act.active_mode,
          mode_switched |-> act.reschedule,
          notified |-> sc /\ should_notify(force, f.door_state, cls.door_state) ]

--------------------------------------------------------------------------
(* The second sensor *)

\* How much larger the change_threshold of the second sensor is.
ThresholdGap == 35

\* The configuration of the second sensor.
twin_config(cfg) ==
    [ cfg EXCEPT !.change_threshold = @ + ThresholdGap ]

\* The fields __init__ assigns.
InitialFields ==
    [ door_state |-> STATE_UNKNOWN, next_action |-> NEXT_ACTION_UNKNOWN,
      percent_value |-> None, last_percent |-> None,
      state_stable_since |-> 0, active_mode |-> FALSE ]

\* The fields among the results of apply_sample.
fields_of(out) == [ f \in DOMAIN InitialFields |-> out[f] ]

--------------------------------------------------------------------------
(* History variable *)

\* The sensor's fields as a step found them.
Snapshot(ds, pv, lp) ==
    [ door_state |-> ds, next_action |-> next_action,
      percent_value |-> pv, last_percent |-> lp,
      active_mode |-> active_mode, state_stable_since |-> state_stable_since,
      state_history |-> state_history ]

NoSnapshot ==
    [ door_state |-> STATE_UNKNOWN, next_action |-> NEXT_ACTION_UNKNOWN,
      percent_value |-> None, last_percent |-> None,
      active_mode |-> FALSE, state_stable_since |-> 0,
      state_history |-> << >> ]

NoEvent ==
    [ kind |-> "none", force |-> FALSE, classified |-> FALSE,
      notified |-> FALSE, late |-> FALSE,
      pre |-> NoSnapshot ]

--------------------------------------------------------------------------
(* DoorStatusSensor.__init__ *)

\* The state of a sensor that was just constructed.
InitSensor ==
    /\ config \in Configs
    /\ percent_value = None
    /\ door_state = STATE_UNKNOWN
    /\ next_action = NEXT_ACTION_UNKNOWN
    /\ last_percent = None
    /\ now = 0
    /\ state_stable_since = 0
    /\ unsub_update = None
    /\ active_mode = FALSE
    /\ state_history = << >>
    /\ available = FALSE
    /\ phase = "created"
    /\ timers = << >>
    /\ initial_pending = None
    /\ setup_pending = TRUE
    /\ tasks = << >>
    /\ ha_state = NoState
    /\ twin = InitialFields
    /\ ev = NoEvent

\* No run is prepared.
NoGoal == << >>

\* No call of _get_line_pixels is looked at.
NoLine ==
    [ width |-> 0, height |-> 0, point_a |-> << 0, 0 >>,
      point_b |-> << 0, 0 >>, returned |-> FALSE, pixels |-> << >> ]

\* No evaluation of the match percentage is looked at.
NoMatch ==
    [ pixels |-> << >>, min_color |-> << 0, 0, 0 >>,
      max_color |-> << 0, 0, 0 >>, computed |-> FALSE, current_percent |-> 0 ]

Init ==
    /\ InitSensor
    /\ goal = NoGoal
    /\ line = NoLine
    /\ match = NoMatch

--------------------------------------------------------------------------
(* DoorStatusSensor._async_update, up to `await async_get_image` *)

\* The model takes another sample only below its bounds.
MayStart ==
    /\ Len(tasks) < MaxInflight
    /\ Len(state_history) + Len(tasks) < MaxSamples

\* One more coroutine awaiting its image.  reschedule: the caller is
\* _handle_config_update, which calls _schedule_update once the refresh
\* returns.
started(force, reschedule) ==
    Append(tasks, [ force |-> force, reschedule |-> reschedule,
                    overtaken |-> FALSE ])

\* _async_update called by a timer or by async_refresh: _available is
\* cleared; with the camera missing or unavailable the cycle ends here,
\* otherwise the coroutine awaits the image.
begin_update(force, camera_ok) ==
    /\ available' = FALSE
    /\ IF camera_ok
       THEN /\ tasks' = started(force, FALSE)
            /\ ev' = NoEvent
       ELSE /\ tasks' = tasks
            /\ ev' = [ NoEvent EXCEPT !.kind = "failed", !.force = force,
                         !.pre = Snapshot(door_state, percent_value, last_percent) ]
    /\ UNCHANGED << match, line, goal,
                    config, sensor_vars, unsub_update, now, phase, ha_state,
                    twin >>

\* The same, below the bounds of the model.
StartUpdate(force, camera_ok) ==
    /\ MayStart
    /\ begin_update(force, camera_ok)

\* The i-th interval tracker fires, at or after the time it is due, and is
\* due again one interval later: `self._async_update(now)`, not forced.
tick(i, camera_ok) ==
    /\ i \in 1..Len(timers)
    /\ timers[i].due <= now
    /\ timers' = [ timers EXCEPT ![i].due = now + timers[i].interval ]
    /\ begin_update(FALSE, camera_ok)
    /\ UNCHANGED << initial_pending, setup_pending >>

PollTick(i) ==
    /\ MayStart
    /\ \E camera_ok \in BOOLEAN : tick(i, camera_ok)

\* _initial_update, five seconds after async_added_to_hass or later.
InitialUpdate ==
    /\ initial_pending # None
    /\ initial_pending <= now
    /\ initial_pending' = None
    /\ \E camera_ok \in BOOLEAN : StartUpdate(TRUE, camera_ok)
    /\ UNCHANGED << setup_pending, timers >>

\* async_setup_entry: `await sensor.async_refresh()`, once, after the entity
\* was handed to async_add_entities.
SetupRefresh ==
    /\ setup_pending
    /\ phase \in {"created", "added"}
    /\ setup_pending' = FALSE
    /\ \E camera_ok \in BOOLEAN : StartUpdate(TRUE, camera_ok)
    /\ UNCHANGED << initial_pending, timers >>

\* async_refresh called on an entity in Home Assistant while no other update
\* is in flight: the forced update of the specification's driver.
Refresh ==
    /\ phase = "added"
    /\ tasks = << >>
    /\ Len(state_history) < MaxRefreshes
    /\ \E camera_ok \in BOOLEAN : begin_update(TRUE, camera_ok)
    /\ UNCHANGED << initial_pending, setup_pending, timers >>

--------------------------------------------------------------------------
(* DoorStatusSensor._async_update, after the image arrived *)

\* tasks without the i-th; the coroutines started before it are marked as
\* overtaken when the i-th applied its sample.
finished(i, applied) ==
    LET marked == [ j \in 1..Len(tasks) |->
                      IF applied /\ j < i
                      THEN [ tasks[j] EXCEPT !.overtaken = TRUE ]
                      ELSE tasks[j] ]
    IN  RemoveAt(marked, i)

\* The i-th coroutine gets an image whose line matches the colour range at
\* p tenths of a percent: sensor.py lines 246 to 316, and line 141 when the
\* coroutine was awaited by _handle_config_update.
ApplySample(i, p) ==
    /\ i \in 1..Len(tasks)
    /\ phase # "created"
    /\ LET t     == tasks[i]
           hist  == history_after(state_history, p)
           act   == active_mode_switch(p, last_percent, active_mode, config)
           sch1  == IF act.reschedule
                    THEN schedule_update(timers, unsub_update,
                                         act.active_mode, config, now)
                    ELSE [ timers |-> timers, unsub_update |-> unsub_update ]
           lp1   == percent_value
           sc    == state_changed(t.force, door_state, p, lp1, now,
                                  state_stable_since, config)
           cls   == update_door_state(door_state, next_action, p, lp1, config)
           note  == sc /\ should_notify(t.force, door_state, cls.door_state)
           sch2  == IF t.reschedule
                    THEN schedule_update(sch1.timers, sch1.unsub_update,
                                         act.active_mode, config, now)
                    ELSE sch1
       IN  /\ state_history' = hist
           /\ active_mode' = act.active_mode
           /\ percent_value' = p
           /\ available' = TRUE
           /\ last_percent' = IF sc THEN cls.last_percent ELSE lp1
           /\ door_state' = IF sc THEN cls.door_state ELSE door_state
           /\ next_action' = IF sc THEN cls.next_action ELSE next_action
           /\ state_stable_since' =
                  stable_since_after(sc, door_state, cls.door_state, now,
                                     state_stable_since)
           /\ ha_state' = IF note
                          THEN written_state(cls.door_state, cls.next_action,
                                             p, cls.last_percent, now)
                          ELSE ha_state
           /\ twin' = fields_of(apply_sample(twin, t.force, p, now,
                                              twin_config(config)))
           /\ timers' = sch2.timers
           /\ unsub_update' = sch2.unsub_update
           /\ tasks' = finished(i, TRUE)
           /\ ev' = [ kind |-> "applied", force |-> t.force,
                      classified |-> sc, notified |-> note,
                      late |-> t.overtaken,
                      pre |-> Snapshot(door_state, percent_value, last_percent) ]
    /\ UNCHANGED << match, line, goal,
                    config, now, phase, initial_pending, setup_pending >>

\* Faulty variant of FailUpdate: a cycle that ends without a sample drops the
\* label, as the configuration handler does.
FailUpdateClearing(i) ==
    /\ i \in 1..Len(tasks)
    /\ phase # "created"
    /\ door_state' = STATE_UNKNOWN
    /\ tasks' = finished(i, FALSE)
    /\ ev' = [ NoEvent EXCEPT !.kind = "failed", !.force = tasks[i].force,
                 !.late = tasks[i].overtaken,
                 !.pre = Snapshot(door_state, percent_value, last_percent) ]
    /\ UNCHANGED << match, line, goal,
                    config, percent_value, last_percent, next_action,
                    state_stable_since, active_mode, state_history,
                    unsub_update, timers, available, now, phase,
                    initial_pending, setup_pending, ha_state, twin >>

\* The i-th coroutine ends without a sample: the fetch timed out or raised,
\* the image had no content or could not be decoded, or the line sampled no
\* pixel.  Every one of these paths returns before line 246.
FailUpdate(i) ==
    /\ i \in 1..Len(tasks)
    /\ phase # "created"
    /\ LET t   == tasks[i]
           sch == IF t.reschedule
                  THEN schedule_update(timers, unsub_update, active_mode,
                                       config, now)
                  ELSE [ timers |-> timers, unsub_update |-> unsub_update ]
       IN  /\ timers' = sch.timers
           /\ unsub_update' = sch.unsub_update
           /\ tasks' = finished(i, FALSE)
           /\ ev' = [ NoEvent EXCEPT !.kind = "failed", !.force = t.force,
                        !.late = t.overtaken,
                        !.pre = Snapshot(door_state, percent_value, last_percent) ]
    /\ UNCHANGED << match, line, goal,
                    config, sensor_vars, available, now, phase,
                    initial_pending, setup_pending, ha_state, twin >>

--------------------------------------------------------------------------
(* DoorStatusSensor._handle_config_update *)

\* The config entry was updated to c.  The handler re-reads the entry,
\* cancels the timer, resets the label and both percents (not next_action),
\* and awaits async_refresh; _schedule_update runs when the refresh returns,
\* which is at once when the camera is missing or unavailable.
ConfigUpdate(c, camera_ok) ==
    /\ phase = "added"
    /\ MayStart
    /\ config' = c
    /\ door_state' = STATE_UNKNOWN
    /\ percent_value' = None
    /\ last_percent' = None
    /\ twin' = [ twin EXCEPT !.door_state = STATE_UNKNOWN,
                             !.percent_value = None, !.last_percent = None ]
    /\ available' = FALSE
    /\ LET cancelled == cancel_update(timers, unsub_update)
           sch == IF camera_ok
                  THEN cancelled
                  ELSE schedule_update(cancelled.timers, cancelled.unsub_update,
                                       active_mode, c, now)
       IN  /\ timers' = sch.timers
           /\ unsub_update' = sch.unsub_update
    /\ IF camera_ok
       THEN /\ tasks' = started(TRUE, TRUE)
            /\ ev' = NoEvent
       ELSE /\ tasks' = tasks
            /\ ev' = [ NoEvent EXCEPT !.kind = "failed", !.force = TRUE,
                         !.pre = Snapshot(STATE_UNKNOWN, None, None) ]
    /\ UNCHANGED << match, line, goal, next_action, state_stable_since,
                    active_mode, state_history, now, phase, initial_pending,
                    setup_pending, ha_state >>

--------------------------------------------------------------------------
(* DoorStatusSensor.async_added_to_hass *)

NoStoredState ==
    [ state |-> "none", percent |-> Missing, next_action |-> "missing",
      last_percent |-> Missing, last_update |-> Missing ]

\* What async_get_last_state can return: nothing; a state this sensor wrote
\* in an earlier run; the "unavailable" state Home Assistant records for an
\* entity that is not available, which carries none of the attributes.
StoredStates ==
    { NoStoredState,
      written_state(STATE_CLOSING, NEXT_ACTION_OPEN, 500, 80, 0),
      [ NoStoredState EXCEPT !.state = STATE_UNAVAILABLE ] }

\* state.attributes.get(key, default)
attr(value, default) == IF value = Missing THEN default ELSE value

\* The fields after "Restore previous state if available".
restore_state(st, t_now) ==
    LET pv == attr(st.percent, 0)
    IN  [ door_state |-> st.state,
          percent_value |-> pv,
          next_action |-> IF st.next_action = "missing"
                          THEN NEXT_ACTION_UNKNOWN ELSE st.next_action,
          last_percent |-> attr(st.last_percent, pv),
          state_stable_since |-> attr(st.last_update, t_now) ]

AddedToHass(st) ==
    /\ phase = "created"
    /\ phase' = "added"
    /\ IF st # NoStoredState
       THEN LET r == restore_state(st, now)
            IN  /\ door_state' = r.door_state
                /\ percent_value' = r.percent_value
                /\ next_action' = r.next_action
                /\ last_percent' = r.last_percent
                /\ state_stable_since' = r.state_stable_since
                /\ available' = TRUE
                /\ ha_state' = written_state(r.door_state, r.next_action,
                                             r.percent_value, r.last_percent,
                                             r.state_stable_since)
                /\ twin' = [ f \in DOMAIN twin |->
                               IF f = "active_mode" THEN twin[f] ELSE r[f] ]
       ELSE UNCHANGED << door_state, percent_value, next_action, last_percent,
                         state_stable_since, available, ha_state, twin >>
    /\ initial_pending' = now + INITIAL_UPDATE_DELAY
    /\ LET sch == schedule_update(timers, unsub_update, active_mode, config,
                                  now)
       IN  /\ timers' = sch.timers
           /\ unsub_update' = sch.unsub_update
    /\ ev' = NoEvent
    /\ UNCHANGED << match, line, goal, config, active_mode, state_history, now,
                    setup_pending, tasks >>

--------------------------------------------------------------------------
(* DoorStatusSensor.async_will_remove_from_hass *)

Remove ==
    /\ phase = "added"
    /\ phase' = "removed"
    /\ LET cancelled == cancel_update(timers, unsub_update)
       IN  /\ timers' = cancelled.timers
           /\ unsub_update' = cancelled.unsub_update
    /\ ev' = NoEvent
    /\ UNCHANGED << match, line, goal,
                    config, sensor_vars, available, now, initial_pending,
                    setup_pending, tasks, ha_state, twin >>

--------------------------------------------------------------------------
(* The clock *)

\* The instants after now at which something can happen: a tracker or the
\* initial update is due, or state_timeout has just been exceeded.
Instants ==
    { t \in (now + 1)..MaxTime :
        \/ \E i \in 1..Len(timers) : timers[i].due = t
        \/ initial_pending = t
        \/ t = state_stable_since + config.state_timeout + 1 }

\* The clock moves on to t.  A timer never fires before it is due; nothing
\* bounds how late the event loop runs it.
AdvanceTime(t) ==
    /\ t \in Instants
    /\ now' = t
    /\ ev' = NoEvent
    /\ UNCHANGED << match, line, goal,
                    config, sensor_vars, unsub_update, available, phase,
                    timers, initial_pending, setup_pending, tasks, ha_state,
                    twin >>

--------------------------------------------------------------------------
(* Specification *)

Next ==
    \/ \E st \in StoredStates : AddedToHass(st)
    \/ SetupRefresh
    \/ InitialUpdate
    \/ \E i \in 1..MaxInflight : PollTick(i)
    \/ \E i \in 1..MaxInflight, p \in Percents : ApplySample(i, p)
    \/ \E i \in 1..MaxInflight : FailUpdate(i)
    \/ \E c \in Configs, camera_ok \in BOOLEAN : ConfigUpdate(c, camera_ok)
    \/ \E t \in 1..MaxTime : AdvanceTime(t)

\* The sensor from its construction on, for as long as the entity stays in
\* Home Assistant.
Spec == Init /\ [][Next]_vars

\* A fresh sensor with the default configuration, updated only by forced
\* refreshes, one after the other.
InitForced == Init /\ config = DefaultConfig

NextForced ==
    \/ AddedToHass(NoStoredState)
    \/ Refresh
    \/ \E p \in Percents : ApplySample(1, p)
    \/ \E t \in 1..MaxTime : AdvanceTime(t)

SpecForced == InitForced /\ [][NextForced]_vars

\* The same with the removal of the entity.
NextLifecycle == Next \/ Remove

SpecLifecycle == Init /\ [][NextLifecycle]_vars

--------------------------------------------------------------------------
(* A door that has come to rest *)

\* A time of the past, one second further back; times more than MaxTime
\* seconds back are all held as 0.  MaxTime is above every state_timeout of
\* Configs, so `now - state_stable_since > state_timeout` and `due <= now`
\* keep their values.
Rebased(t) == IF t = None THEN None ELSE IF t > 0 THEN t - 1 ELSE 0

\* One second passes.  At the horizon the clock stays at MaxTime and every
\* recorded time moves one second back instead.
PassTime ==
    /\ IF now < MaxTime
       THEN /\ now' = now + 1
            /\ UNCHANGED << state_stable_since, timers, initial_pending,
                            ha_state, twin >>
       ELSE /\ now' = now
            /\ state_stable_since' = Rebased(state_stable_since)
            /\ timers' = [ j \in 1..Len(timers) |->
                             [ timers[j] EXCEPT !.due = Rebased(@) ] ]
            /\ initial_pending' = Rebased(initial_pending)
            /\ ha_state' = [ ha_state EXCEPT !.last_update = Rebased(@) ]
            /\ twin' = [ twin EXCEPT !.state_stable_since = Rebased(@) ]
    /\ ev' = NoEvent
    /\ UNCHANGED << match, line, goal,
                    config, percent_value, last_percent, door_state,
                    next_action, active_mode, state_history, unsub_update,
                    available, phase, setup_pending, tasks >>

\* A polling tick with the camera available, however many samples were
\* taken before, once the update before it has ended.
SteadyTick(i) ==
    /\ tasks = << >>
    /\ tick(i, TRUE)

\* The percents of a door on its way: 8.0, 50.0 and 92.0.
MovingPercents == {80, 500, 920}

\* The percents the camera can produce: any of MovingPercents for the first
\* samples, and from then on the percent sampled last.
SteadyPercents ==
    IF Len(state_history) < MaxSamples
    THEN MovingPercents
    ELSE {percent_value}

SteadySample(i) == \E p \in SteadyPercents : ApplySample(i, p)

NextSteady ==
    \/ AddedToHass(NoStoredState)
    \/ InitialUpdate
    \/ \E i \in 1..MaxInflight : SteadyTick(i)
    \/ \E i \in 1..MaxInflight : SteadySample(i)
    \/ PassTime

\* A fresh sensor in front of a scene that stops changing, with update cycles
\* that follow one another and get their sample: time keeps passing, a due
\* timer fires, and the image of a started cycle arrives.
SpecSteady ==
    /\ Init
    /\ [][NextSteady]_vars
    /\ WF_vars(PassTime)
    /\ WF_vars(\E i \in 1..MaxInflight : SteadyTick(i))
    /\ WF_vars(\E i \in 1..MaxInflight : SteadySample(i))

--------------------------------------------------------------------------
(* A door that rests near the middle *)

\* Percents on either side of the midpoint between the default open and
\* closed positions, less than change_threshold apart: 46.0 and 54.0; and
\* 8.0, inside the Open band.
MidpointPercents == { 80, 460, 540 }

MidpointSample(i) == \E p \in MidpointPercents : ApplySample(i, p)

NextMidpoint ==
    \/ AddedToHass(NoStoredState)
    \/ InitialUpdate
    \/ \E i \in 1..MaxInflight : PollTick(i)
    \/ \E i \in 1..MaxInflight : MidpointSample(i)
    \/ \E i \in 1..MaxInflight : FailUpdate(i)
    \/ PassTime

\* A fresh sensor with the default configuration in front of a door that
\* moves little.
SpecMidpoint == InitForced /\ [][NextMidpoint]_vars

--------------------------------------------------------------------------
(* Prepared runs: from one label to another *)

Labels ==
    { STATE_OPEN, STATE_CLOSED, STATE_OPENING, STATE_CLOSING,
      STATE_PARTIALLY_OPEN }

\* The ordered pairs of distinct labels.
LabelPairs == { pr \in Labels \X Labels : pr[1] # pr[2] }

\* One update cycle of a run: the percent its image gives, whether it is a
\* forced one (async_refresh) or a polling tick, and how many later cycles
\* are started before its image arrives.
forced(p) == [ p |-> p, force |-> TRUE, ahead |-> 0 ]
polled(p, ahead) == [ p |-> p, force |-> FALSE, ahead |-> ahead ]

\* Forced cycles that take a fresh sensor to label a; the last percent is the
\* one the sensor holds under that label.
Reach(a) ==
    CASE a = STATE_OPEN           -> << forced(80) >>
      [] a = STATE_CLOSED         -> << forced(920) >>
      [] a = STATE_PARTIALLY_OPEN -> << forced(500) >>
      [] a = STATE_CLOSING        -> << forced(300), forced(500) >>
      [] a = STATE_OPENING        -> << forced(700), forced(500) >>

\* The percent that takes the sensor from label a, reached by Reach(a), to
\* label b when the cycle classifies.
Onward(a, b) ==
    CASE b = STATE_OPEN   -> 80
      [] b = STATE_CLOSED -> 920
      [] b = STATE_CLOSING ->
             IF a = STATE_OPEN THEN 500 ELSE 700
      [] b = STATE_OPENING ->
             IF a = STATE_CLOSED THEN 500 ELSE 300
      [] b = STATE_PARTIALLY_OPEN ->
             IF a = STATE_OPEN THEN 160
             ELSE IF a = STATE_CLOSED THEN 840 ELSE 500

\* From Open, a sample above the Open band by change_threshold or more gives
\* Closing, never Opening: the percent has to creep up first, in steps below
\* transition_threshold that come before state_timeout has passed, so that
\* no cycle classifies.  Polling ticks come that fast only in active mode,
\* which the second step of the creep ends: its successor is a tick that
\* fired before, with its image still awaited.
OpenToOpening ==
    << forced(500), forced(500), polled(150, 0), polled(199, 1),
       polled(248, 1), polled(297, 0), forced(197) >>

\* The same from Closed, downwards.
ClosedToClosing ==
    << forced(500), forced(500), polled(850, 0), polled(801, 1),
       polled(752, 1), polled(703, 0), forced(803) >>

\* The run prepared for the pair g.
Route(g) ==
    IF g = << STATE_OPEN, STATE_OPENING >> THEN OpenToOpening
    ELSE IF g = << STATE_CLOSED, STATE_CLOSING >> THEN ClosedToClosing
    ELSE Reach(g[1]) \o << forced(Onward(g[1], g[2])) >>

\* The cycles started so far.
Started == Len(state_history) + Len(tasks)

\* The image of the oldest awaited cycle arrives now.
ArrivalDue ==
    /\ tasks # << >>
    /\ Started >= Len(state_history) + 1
                    + Route(goal)[Len(state_history) + 1].ahead

\* The next cycle of the run is to be started, and is of the given kind.
StartDue(force) ==
    /\ phase = "added"
    /\ ~ArrivalDue
    /\ Started < Len(Route(goal))
    /\ Route(goal)[Started + 1].force = force

\* Something calls async_refresh now: async_setup_entry, else _initial_update
\* once it is due, else a caller outside the component.
ForcedReady ==
    /\ StartDue(TRUE)
    /\ setup_pending \/ initial_pending = None \/ initial_pending <= now

TickReady ==
    /\ StartDue(FALSE)
    /\ \E i \in 1..Len(timers) : timers[i].due <= now

\* The forced cycle that is next in the run starts, with the camera
\* available.
PlayForced ==
    /\ ForcedReady
    /\ setup_pending' = FALSE
    /\ initial_pending' = IF setup_pending THEN initial_pending ELSE None
    /\ begin_update(TRUE, TRUE)
    /\ UNCHANGED timers

\* The polling tick that is next in the run fires, with the camera available.
PlayTick(i) ==
    /\ TickReady
    /\ tick(i, TRUE)

\* The image of the oldest awaited cycle arrives and gives the percent of the
\* run.
PlaySample ==
    /\ goal # NoGoal
    /\ ArrivalDue
    /\ ApplySample(1, Route(goal)[Len(state_history) + 1].p)

\* Time passes while the run waits for a timer.
PlayTime ==
    /\ phase = "added"
    /\ Len(state_history) < Len(Route(goal))
    /\ ~ArrivalDue
    /\ ~ForcedReady
    /\ ~TickReady
    /\ PassTime

NextPairs ==
    \/ AddedToHass(NoStoredState)
    \/ PlayForced
    \/ \E i \in 1..MaxInflight : PlayTick(i)
    \/ PlaySample
    \/ PlayTime

\* A fresh sensor with the default configuration, and the pair of labels it
\* is to be taken through.
InitPairs ==
    /\ InitSensor
    /\ config = DefaultConfig
    /\ goal \in LabelPairs
    /\ line = NoLine
    /\ match = NoMatch

\* The run prepared for the pair, played to its end.
SpecPairs ==
    /\ InitPairs
    /\ [][NextPairs]_vars
    /\ WF_vars(NextPairs)

--------------------------------------------------------------------------
(* DoorStatusSensor._get_line_pixels *)

Max(a, b) == IF a > b THEN a ELSE b
Min(a, b) == IF a < b THEN a ELSE b

\* Faulty variant of clamp: the upper limit is the size itself.
clamp_to_size(v, size) == Max(0, Min(v, size))

\* max(0, min(v, size - 1))
clamp(v, size) == Max(0, Min(v, size - 1))

\* Faulty variant of with_pixel: the first row and the first column count as
\* outside the image.
with_pixel_from_one(pixels, x, y, width, height) ==
    IF 0 < y /\ y < height /\ 0 < x /\ x < width
    THEN Append(pixels, << x, y >>)
    ELSE pixels

\* `if 0 <= y < height and 0 <= x < width: pixels.append(img_array[y, x])`.
\* A pixel is held as its place << x, y >> in the image.
with_pixel(pixels, x, y, width, height) ==
    IF 0 <= y /\ y < height /\ 0 <= x /\ x < width
    THEN Append(pixels, << x, y >>)
    ELSE pixels

\* The loop `while x != x1` of the branch dx > dy, from (x, y) on.  err2 is
\* twice err, which starts at dx / 2.0 and moves by whole numbers.  Returns
\* the pixels and the place the loop ends at.
RECURSIVE walk_x(_, _, _, _, _, _, _, _, _, _, _)
walk_x(x, y, x1, err2, dx, dy, sx, sy, width, height, pixels) ==
    IF x = x1
    THEN [ pixels |-> pixels, x |-> x, y |-> y ]
    ELSE LET stepped == err2 - 2 * dy < 0
         IN  walk_x(x + sx, IF stepped THEN y + sy ELSE y, x1,
                    IF stepped THEN err2 - 2 * dy + 2 * dx ELSE err2 - 2 * dy,
                    dx, dy, sx, sy, width, height,
                    with_pixel(pixels, x, y, width, height))

\* The loop `while y != y1` of the other branch; err starts at dy / 2.0.
RECURSIVE walk_y(_, _, _, _, _, _, _, _, _, _, _)
walk_y(x, y, y1, err2, dx, dy, sx, sy, width, height, pixels) ==
    IF y = y1
    THEN [ pixels |-> pixels, x |-> x, y |-> y ]
    ELSE LET stepped == err2 - 2 * dx < 0
         IN  walk_y(IF stepped THEN x + sx ELSE x, y + sy, y1,
                    IF stepped THEN err2 - 2 * dx + 2 * dy ELSE err2 - 2 * dx,
                    dx, dy, sx, sy, width, height,
                    with_pixel(pixels, x, y, width, height))

\* The pixels _get_line_pixels returns for an image of the given size.
get_line_pixels(width, height, point_a, point_b) ==
    IF height = 0 \/ width = 0
    THEN << >>
    ELSE
    LET x0 == clamp(point_a[1], width)
        y0 == clamp(point_a[2], height)
        x1 == clamp(point_b[1], width)
        y1 == clamp(point_b[2], height)
        dx == Abs(x1 - x0)
        dy == Abs(y1 - y0)
        sx == IF x0 > x1 THEN -1 ELSE 1
        sy == IF y0 > y1 THEN -1 ELSE 1
    IN  IF dx > dy
        THEN LET w == walk_x(x0, y0, x1, dx, dx, dy, sx, sy, width, height,
                             << >>)
             IN  with_pixel(w.pixels, w.x, w.y, width, height)
        ELSE LET w == walk_y(x0, y0, y1, dy, dx, dy, sx, sy, width, height,
                             << >>)
             IN  with_pixel(w.pixels, w.x, w.y, width, height)

\* The images are up to MaxSide pixels wide and high.
Sides == 1..MaxSide

\* The calls with an image of at least one pixel and both endpoints inside.
LineCalls ==
    { c \in [ width : Sides, height : Sides,
              point_a : (0..(MaxSide - 1)) \X (0..(MaxSide - 1)),
              point_b : (0..(MaxSide - 1)) \X (0..(MaxSide - 1)),
              returned : {FALSE}, pixels : {<< >>} ] :
        /\ c.point_a[1] < c.width /\ c.point_a[2] < c.height
        /\ c.point_b[1] < c.width /\ c.point_b[2] < c.height }

\* The call returns.
GetLinePixels ==
    /\ ~line.returned
    /\ line' = [ line EXCEPT
                   !.returned = TRUE,
                   !.pixels = get_line_pixels(line.width, line.height,
                                              line.point_a, line.point_b) ]
    /\ UNCHANGED << match, goal,
                    config, sensor_vars, unsub_update, available, now,
                    phase, timers, initial_pending, setup_pending, tasks,
                    ha_state, twin, ev >>

InitLine ==
    /\ InitSensor
    /\ config = DefaultConfig
    /\ goal = NoGoal
    /\ line \in LineCalls
    /\ match = NoMatch

NextLine == GetLinePixels

\* One call of _get_line_pixels.
SpecLine == InitLine /\ [][NextLine]_vars

\* The calls with an image that may have no pixel at all, and endpoints that
\* may lie outside the image, by one pixel on either side.
AnyLineCalls ==
    [ width : 0..MaxSide, height : 0..MaxSide,
      point_a : ((-1)..MaxSide) \X ((-1)..MaxSide),
      point_b : ((-1)..MaxSide) \X ((-1)..MaxSide),
      returned : {FALSE}, pixels : {<< >>} ]

InitAnyLine ==
    /\ InitSensor
    /\ config = DefaultConfig
    /\ goal = NoGoal
    /\ line \in AnyLineCalls
    /\ match = NoMatch

\* One call of _get_line_pixels with endpoints anywhere.
SpecAnyLine == InitAnyLine /\ [][NextLine]_vars

--------------------------------------------------------------------------
(* "Calculate match percentage with the color range" *)

\* Faulty variant of in_range: the two limits themselves are outside.
in_range_exclusive(pixel, min_color, max_color) ==
    \A c \in 1..3 : pixel[c] > min_color[c] /\ pixel[c] < max_color[c]

\* np.all((pixels >= self._min_color) & (pixels <= self._max_color), axis=1)
\* for one pixel.  The limits are a tuple of Python ints of any size, so the
\* uint8 channels are compared as integers.
in_range(pixel, min_color, max_color) ==
    \A c \in 1..3 : pixel[c] >= min_color[c] /\ pixel[c] <= max_color[c]

\* np.sum(in_range)
count_in_range(pixels, min_color, max_color) ==
    Cardinality({ i \in 1..Len(pixels) :
                    in_range(pixels[i], min_color, max_color) })

\* round(100 * num / den, 1) in tenths: the nearest tenth, the even one when
\* two are equally near.
round_tenths(num, den) ==
    LET q  == (100 * Scale * num) \div den
        r2 == 2 * ((100 * Scale * num) % den)
    IN  IF r2 > den \/ (r2 = den /\ q % 2 = 1) THEN q + 1 ELSE q

\* current_percent, in tenths.
current_percent(pixels, min_color, max_color) ==
    round_tenths(count_in_range(pixels, min_color, max_color), Len(pixels))

\* The colours of the pixels of the model.
PixelColors ==
    { << 0, 0, 0 >>, << 100, 100, 100 >>, << 100, 0, 255 >>,
      << 255, 255, 255 >> }

\* The values a channel limit takes in the model: below every channel
\* value, the value of a channel of a pixel, above every channel value.
ColorLimits == { -1, 100, 256 }

\* The sample sets of 1 to MaxPixels pixels.
SampleSets ==
    UNION { [ 1..n -> PixelColors ] : n \in 1..MaxPixels }

MatchCalls ==
    [ pixels : SampleSets,
      min_color : ColorLimits \X ColorLimits \X ColorLimits,
      max_color : ColorLimits \X ColorLimits \X ColorLimits,
      computed : {FALSE}, current_percent : {0} ]

\* The percentage is computed.
MatchPercent ==
    /\ ~match.computed
    /\ match' = [ match EXCEPT
                    !.computed = TRUE,
                    !.current_percent =
                        current_percent(match.pixels, match.min_color,
                                        match.max_color) ]
    /\ UNCHANGED << line, goal, config, sensor_vars, unsub_update, available,
                    now, phase, timers, initial_pending, setup_pending, tasks,
                    ha_state, twin, ev >>

InitMatch ==
    /\ InitSensor
    /\ config = DefaultConfig
    /\ goal = NoGoal
    /\ line = NoLine
    /\ match \in MatchCalls

NextMatch == MatchPercent

\* One evaluation of the match percentage.
SpecMatch == InitMatch /\ [][NextMatch]_vars

--------------------------------------------------------------------------
(* Properties.  After a step that ended an update cycle, ev describes the   *)
(* cycle and ev.pre holds the sensor's fields as the step found them; the   *)
(* variables hold the fields as the cycle left them.                        *)

\* The step just taken applied a sample, and ran (or did not run)
\* _update_door_state.
Applied == ev.kind = "applied"
Classified == Applied /\ ev.classified

\* The bands of the specification, on the current percent.
OpenBand ==
    percent_value <= Scale * (config.open_position + config.transition_threshold)
ClosedBand ==
    percent_value >= Scale * (config.closed_position - config.transition_threshold)

\* The previous percent of the cycle, and the distance of the new one to it.
PrevPercent == ev.pre.percent_value
Delta == Abs(percent_value - PrevPercent)

\* C1: whenever classification runs, a current percent at or below
\* open_position + transition_threshold gives Open with next action Close,
\* whatever the previous percent and label; otherwise a percent at or above
\* closed_position - transition_threshold gives Closed with next action
\* Open.  When both hold, Open wins.
C1_OpenAndClosedBands ==
    Classified =>
        /\ OpenBand =>
              door_state = STATE_OPEN /\ next_action = NEXT_ACTION_CLOSE
        /\ (~OpenBand /\ ClosedBand) =>
              door_state = STATE_CLOSED /\ next_action = NEXT_ACTION_OPEN

\* C1: a classification at exactly open_position + transition_threshold,
\* inside the Closed band as well, of a door that was Closed.
C1_Witness ==
    /\ Classified
    /\ percent_value =
           Scale * (config.open_position + config.transition_threshold)
    /\ ClosedBand
    /\ ev.pre.door_state = STATE_CLOSED
    /\ door_state = STATE_OPEN

\* C2: whenever classification runs with the current percent strictly
\* between the bands and a previous percent l (any l in [0,100], l = 0
\* included) at least change_threshold away, the result is Closing with next
\* action Open when the percent rose and Opening with next action Close
\* when it fell.
C2_MovingDirection ==
    ( /\ Classified
      /\ ~OpenBand /\ ~ClosedBand
      /\ PrevPercent # None
      /\ Delta >= Scale * config.change_threshold )
    =>  /\ percent_value > PrevPercent =>
              door_state = STATE_CLOSING /\ next_action = NEXT_ACTION_OPEN
        /\ percent_value < PrevPercent =>
              door_state = STATE_OPENING /\ next_action = NEXT_ACTION_CLOSE

\* C2 for a previous percent other than 0.0.
C2_MovingDirectionNonZero ==
    PrevPercent # 0 => C2_MovingDirection

\* C3: whenever classification runs with the current percent strictly
\* between the bands and the door not moving (no previous percent, or one
\* less than change_threshold away), the result is PartiallyOpen, with next
\* action Open above the midpoint of the two positions and Close otherwise,
\* whatever label was held before.
C3_PartiallyOpenMidpoint ==
    ( /\ Classified
      /\ ~OpenBand /\ ~ClosedBand
      /\ (PrevPercent = None \/ Delta < Scale * config.change_threshold) )
    =>  /\ door_state = STATE_PARTIALLY_OPEN
        /\ next_action =
               IF 2 * percent_value >
                      Scale * (config.open_position + config.closed_position)
               THEN NEXT_ACTION_OPEN
               ELSE NEXT_ACTION_CLOSE

\* C3: a door that was Closing is classified again at the same percent, at
\* the midpoint: PartiallyOpen with next action Close.
C3_Witness ==
    /\ Classified
    /\ ev.pre.door_state = STATE_CLOSING
    /\ PrevPercent = percent_value
    /\ door_state = STATE_PARTIALLY_OPEN
    /\ next_action = NEXT_ACTION_CLOSE

\* C4 as the specification states it, under SpecForced (default
\* configuration, fresh sensor, forced updates one after the other): the
\* percents 8, 50, 92 give Open, then PartiallyOpen, then Closed.
C4_ForcedSequenceAsStated ==
    Applied =>
        /\ state_history = << 80 >> => door_state = STATE_OPEN
        /\ state_history = << 80, 500 >> => door_state = STATE_PARTIALLY_OPEN
        /\ state_history = << 80, 500, 920 >> => door_state = STATE_CLOSED

\* C4, amended: the percents 8, 50, 92 give Open, then Closing (50 is 42
\* above 8, which is not below change_threshold = 10), then Closed.
C4_ForcedSequence ==
    Applied =>
        /\ state_history = << 80 >> => door_state = STATE_OPEN
        /\ state_history = << 80, 500 >> => door_state = STATE_CLOSING
        /\ state_history = << 80, 500, 920 >> => door_state = STATE_CLOSED

\* C4: the third forced update of the sequence has been applied.
C4_Witness ==
    /\ Applied /\ ev.force
    /\ config = DefaultConfig
    /\ state_history = << 80, 500, 920 >>
    /\ ev.pre.door_state = STATE_CLOSING
    /\ door_state = STATE_CLOSED

\* C5: in every successful update cycle with a previous sample, active_mode
\* after the cycle is true exactly when the new percent is at least
\* change_threshold away from the percent of the preceding sample (the
\* current percent as it stood before the cycle); with no previous sample,
\* active_mode is left unchanged.
C5_ActiveModeFollowsPreviousSample ==
    Applied =>
        IF PrevPercent # None
        THEN active_mode = (Delta >= Scale * config.change_threshold)
        ELSE active_mode = ev.pre.active_mode

\* C6: in a non-forced successful update of a sensor whose label is not
\* Unknown and which has a previous percent l (any l in [0,100]),
\* classification runs if and only if the new percent is at least
\* transition_threshold away from l or more than state_timeout has passed
\* since state_stable_since.
C6_ReclassifyIffThresholdOrTimeout ==
    ( /\ Applied /\ ~ev.force
      /\ ev.pre.door_state # STATE_UNKNOWN
      /\ PrevPercent # None )
    =>  ( ev.classified <=>
            \/ Delta >= Scale * config.transition_threshold
            \/ now - ev.pre.state_stable_since > config.state_timeout )

\* C6 for a previous percent other than 0.0.
C6_ReclassifyNonZero ==
    PrevPercent # 0 => C6_ReclassifyIffThresholdOrTimeout

C8_StableSinceFollowsClassification ==
    ev.kind # "none" =>
        state_stable_since =
            IF ev.classified THEN now ELSE ev.pre.state_stable_since

\* C8: a classification that reaffirmed the label moved state_stable_since.
C8_Witness ==
    /\ Classified
    /\ door_state = ev.pre.door_state
    /\ ev.pre.state_stable_since < now
    /\ state_stable_since = now

\* C9: at most one update cycle of the sensor awaits its camera image at
\* any time.
C9_OneUpdateInFlight == Len(tasks) <= 1

\* C10: samples are applied in the order their update cycles were started:
\* no cycle applies its sample after a cycle started later has applied its
\* own.
C10_SamplesAppliedInStartOrder == Applied => ~ev.late

\* The sensor's fields as the step just taken left them, in the shape of
\* ev.pre.
FieldsNow == Snapshot(door_state, percent_value, last_percent)

\* C11: an update cycle that ends without a usable sample (camera missing or
\* unavailable, fetch timed out or raised, no content, undecodable image, no
\* pixel sampled) leaves door_state, next_action, the current and the last
\* percent, state_stable_since, active_mode and the history as it found them.
C11_FailedCycleKeepsState ==
    ev.kind = "failed" => FieldsNow = ev.pre

\* C11: a cycle failed on a sensor that holds a classified sample and is in
\* active mode.
C11_Witness ==
    /\ ev.kind = "failed"
    /\ door_state \in {STATE_CLOSING, STATE_OPENING}
    /\ active_mode
    /\ state_history # << >>
    /\ FieldsNow = ev.pre

\* C12: in front of a scene that stops changing, with update cycles that keep
\* succeeding while time passes, door_state is eventually neither Opening
\* nor Closing, and stays so.
C12_RestingDoorLeavesMoving ==
    <>[](door_state \notin {STATE_OPENING, STATE_CLOSING})

\* C12: a non-forced cycle sampled the same percent as the one before on a
\* door held as Closing, ran the classification because state_timeout had
\* passed, and labelled the door PartiallyOpen.
C12_Witness ==
    /\ Classified /\ ~ev.force
    /\ ev.pre.door_state = STATE_CLOSING
    /\ PrevPercent = percent_value
    /\ now - ev.pre.state_stable_since > config.state_timeout
    /\ door_state = STATE_PARTIALLY_OPEN

\* The fields of the sensor that an update cycle reads and the stored state
\* carries or drops.
Fields ==
    [ door_state |-> door_state, next_action |-> next_action,
      percent_value |-> percent_value, last_percent |-> last_percent,
      state_stable_since |-> state_stable_since, active_mode |-> active_mode ]

\* The fields of a fresh sensor (__init__, then async_added_to_hass at time
\* t_now) restored from the state a sensor with the fields f publishes.
restored_fields(f, t_now) ==
    LET r == restore_state(written_state(f.door_state, f.next_action,
                                         f.percent_value, f.last_percent,
                                         f.state_stable_since), t_now)
    IN  [ door_state |-> r.door_state, next_action |-> r.next_action,
          percent_value |-> r.percent_value, last_percent |-> r.last_percent,
          state_stable_since |-> r.state_stable_since,
          active_mode |-> FALSE ]

\* The step just taken applied a sample as apply_sample computes it.
ApplySampleAgrees ==
    Applied =>
        LET pre == [ f \in DOMAIN Fields |-> ev.pre[f] ]
            out == apply_sample(pre, ev.force, percent_value, now, config)
        IN  /\ Fields = [ f \in DOMAIN Fields |-> out[f] ]
            /\ ev.notified = out.notified

\* A sensor in Home Assistant that holds a sample, so that the state it
\* publishes carries both percents.
HoldsSample ==
    phase = "added" /\ percent_value # None /\ last_percent # None

\* C13: a fresh sensor restored from the state the sensor publishes now, fed
\* the same next sample at the same time, gives the same door_state, the
\* same next_action, the same switch of active_mode and the same
\* notification as the sensor itself.
C13_RoundTrip ==
    HoldsSample =>
        \A force \in BOOLEAN, p \in Percents :
            LET a == apply_sample(Fields, force, p, now, config)
                b == apply_sample(restored_fields(Fields, now), force, p,
                                  now, config)
            IN  /\ a.door_state = b.door_state
                /\ a.next_action = b.next_action
                /\ a.mode_switched = b.mode_switched
                /\ a.notified = b.notified

\* C13 without the switch of active_mode: label, next action, notification
\* and every stored field agree after the next sample.
C13_RoundTripButActiveMode ==
    HoldsSample =>
        \A force \in BOOLEAN, p \in Percents :
            LET a == apply_sample(Fields, force, p, now, config)
                b == apply_sample(restored_fields(Fields, now), force, p,
                                  now, config)
            IN  [ a EXCEPT !.mode_switched = FALSE ] =
                [ b EXCEPT !.mode_switched = FALSE ]

\* C14: in every reachable state, after a restore and after a configuration
\* update as well, door_state is one of the six labels and next_action is
\* one of Open, Close and Unknown.
C14_LabelsWellFormed ==
    door_state \in DoorStates /\ next_action \in NextActions

\* C14 but for the "unavailable" state restored as a label.
C14_LabelsWellFormedUnlessUnavailable ==
    door_state # STATE_UNAVAILABLE => C14_LabelsWellFormed

\* C15: of two runs of the sensor on the same percent sequence that differ
\* only in change_threshold, the one with the larger threshold is in
\* active_mode, at every step, only if the other is.
C15_LargerThresholdActivatesLater ==
    twin.active_mode => active_mode

\* C15: a sample moved the percent by at least the smaller and less than
\* the larger threshold: the first run is in active mode, the second is not.
C15_Witness ==
    /\ Applied
    /\ PrevPercent # None
    /\ Delta >= Scale * config.change_threshold
    /\ Delta < Scale * twin_config(config).change_threshold
    /\ active_mode /\ ~twin.active_mode

\* Values of a position or a threshold, sensible or not: the options flow
\* takes any int.
ConfigValues == {-20, 50, 120}

\* Configurations that differ from the current one in the four values the
\* classification reads.
NumericConfigs ==
    { [ config EXCEPT !.open_position = o, !.closed_position = c,
                      !.transition_threshold = t, !.change_threshold = m ] :
        o \in ConfigValues, c \in ConfigValues,
        t \in ConfigValues, m \in ConfigValues }

\* The five labels other than Unknown.
KnownStates == DoorStates \ {STATE_UNKNOWN}

\* C16: a successful update cycle that finds door_state Unknown runs the
\* classification, forced or not, and leaves a label other than Unknown; so
\* it would under every configuration of NumericConfigs.
C16_UnknownIsLeft ==
    (Applied /\ ev.pre.door_state = STATE_UNKNOWN) =>
        /\ ev.classified
        /\ door_state \in KnownStates
        /\ \A cfg \in NumericConfigs :
               update_door_state(STATE_UNKNOWN, ev.pre.next_action,
                                 percent_value, PrevPercent,
                                 cfg).door_state \in KnownStates

\* C16: a polling tick, not forced, sampled a sensor that was Unknown after a
\* configuration update, within state_timeout, and classified it.
C16_Witness ==
    /\ Classified /\ ~ev.force
    /\ ev.pre.door_state = STATE_UNKNOWN
    /\ state_history # << percent_value >>
    /\ now - ev.pre.state_stable_since <= config.state_timeout
    /\ door_state \in KnownStates

\* The step just taken is an update that took the label from the first label
\* of the pair to the second, under the default configuration.
Moved ==
    /\ Applied
    /\ config = DefaultConfig
    /\ ev.pre.door_state = goal[1]
    /\ door_state = goal[2]

\* C17: the classifier enforces no ordering between labels: for every ordered
\* pair of distinct labels among Open, Closed, Opening, Closing and
\* PartiallyOpen, some successful update under the default thresholds moves
\* door_state from the first to the second.  For whichever pair the run was
\* prepared, the run arrives at such an update.
C17_EveryPairInOneUpdate == <>Moved

\* An update took the label from Open to Opening.
C17_Witness ==
    /\ goal = << STATE_OPEN, STATE_OPENING >>
    /\ Moved
    /\ ev.pre.percent_value > Scale * (DEFAULT_OPEN_POSITION
                                         + DEFAULT_TRANSITION_THRESHOLD)


\* The interval _schedule_update picks for the present mode.
mode_interval ==
    IF active_mode THEN config.active_interval ELSE config.idle_interval

\* C18: whenever a polling timer is scheduled, it is the only one of the
\* sensor, and its interval is active_interval in active mode and
\* idle_interval otherwise.
C18_OneTimerAtModeInterval ==
    timers # << >> =>
        /\ Len(timers) = 1
        /\ timers[1].interval = mode_interval
        /\ unsub_update = timers[1].interval

\* An update switched the polling mode, in either direction, and the timer
\* was replaced.
C18_Witness ==
    /\ Applied
    /\ ev.pre.active_mode # active_mode
    /\ Len(timers) = 1
    /\ timers[1].due = now + mode_interval


\* The last n entries of s, all of s if it has fewer.
MostRecent(s, n) ==
    SubSeq(s, Len(s) - (IF Len(s) < n THEN Len(s) ELSE n) + 1, Len(s))

\* C19: the history never holds more than 20 entries and is the most recent
\* min(n, 20) sampled percents in arrival order: it starts empty, a step that
\* applies a sample leaves the last 20 entries of the history with the sample
\* appended, and no other step touches it.
C19_HistoryIsMostRecentSamples ==
    [][ /\ Len(state_history') <= max_history_length
        /\ state_history' =
               IF ev'.kind = "applied"
               THEN MostRecent(Append(state_history, percent_value'),
                               max_history_length)
               ELSE state_history ]_vars

\* A sample arrived with the history full, and the entry evicted differs
\* from the one that came after it.
C19_Witness ==
    /\ Applied
    /\ Len(ev.pre.state_history) = max_history_length
    /\ ev.pre.state_history[1] # ev.pre.state_history[2]
    /\ state_history = Append(Tail(ev.pre.state_history), percent_value)


\* The distances between the two endpoints of the call.
LineDx == Abs(line.point_b[1] - line.point_a[1])
LineDy == Abs(line.point_b[2] - line.point_a[2])

\* C20: for an image at least one pixel wide and high and two endpoints
\* inside it, the line sampler returns a non-empty sequence of exactly
\* max(|dx|, |dy|) + 1 pixels, one pixel when the endpoints coincide.
C20_LineLength ==
    line.returned =>
        /\ line.pixels # << >>
        /\ Len(line.pixels) = Max(LineDx, LineDy) + 1
        /\ line.point_a = line.point_b => Len(line.pixels) = 1

\* The sampler returned the pixels of a line that is neither horizontal,
\* vertical nor diagonal.
C20_Witness ==
    /\ line.returned
    /\ LineDx > LineDy /\ LineDy > 0
    /\ line.pixels[1] = line.point_a
    /\ line.pixels[Len(line.pixels)] = line.point_b


\* s from its last entry to its first.
Reverse(s) == [ i \in 1..Len(s) |-> s[Len(s) + 1 - i] ]

\* The pixels of the call with its two endpoints exchanged.
BackwardPixels ==
    get_line_pixels(line.width, line.height, line.point_b, line.point_a)

\* C21: for every image and every pair of endpoints, the pixels sampled from
\* b to a are the pixels sampled from a to b in reverse order.
C21_BackwardIsReverse ==
    line.returned => BackwardPixels = Reverse(line.pixels)

\* The same for the lines on which the minor coordinate never has to choose
\* between two rows (or columns): horizontal, vertical and diagonal lines.
C21_BackwardIsReverseOnStraightLines ==
    line.returned /\ (LineDx = 0 \/ LineDy = 0 \/ LineDx = LineDy) =>
        BackwardPixels = Reverse(line.pixels)

\* The endpoints of the call as the traversal uses them.
ClampedA ==
    << clamp(line.point_a[1], line.width), clamp(line.point_a[2], line.height) >>
ClampedB ==
    << clamp(line.point_b[1], line.width), clamp(line.point_b[2], line.height) >>

\* C22: for an image at least one pixel wide and high and any two integer
\* endpoints, the traversal runs between the endpoints clamped into the
\* image: the first pixel is the clamped a, the last is the clamped b, no
\* place is emitted twice, every place is inside the image, and consecutive
\* places differ by at most 1 on each axis.  With width or height 0 the
\* result is empty.
C22_ClampedTraversal ==
    line.returned =>
        IF line.width = 0 \/ line.height = 0
        THEN line.pixels = << >>
        ELSE LET px == line.pixels
             IN  /\ px # << >>
                 /\ px[1] = ClampedA
                 /\ px[Len(px)] = ClampedB
                 /\ \A i, j \in 1..Len(px) : i # j => px[i] # px[j]
                 /\ \A i \in 1..Len(px) :
                        /\ 0 <= px[i][1] /\ px[i][1] < line.width
                        /\ 0 <= px[i][2] /\ px[i][2] < line.height
                 /\ \A i \in 1..(Len(px) - 1) :
                        /\ Abs(px[i + 1][1] - px[i][1]) <= 1
                        /\ Abs(px[i + 1][2] - px[i][2]) <= 1

\* The sampler returned a line of several pixels for two endpoints that
\* both lie outside the image.
C22_Witness ==
    /\ line.returned
    /\ line.point_a # ClampedA
    /\ line.point_b # ClampedB
    /\ Len(line.pixels) > 2
    /\ ClampedA[1] # ClampedB[1] /\ ClampedA[2] # ClampedB[2]


\* The pixels of the evaluation with every channel inside its two limits, both
\* limits included.
InsideRange ==
    { i \in 1..Len(match.pixels) :
        \A c \in 1..3 : /\ match.min_color[c] <= match.pixels[i][c]
                        /\ match.pixels[i][c] <= match.max_color[c] }

\* C23 as stated: the match percentage is 100 * count_in_range / len(samples).
C23_ExactPercentage ==
    match.computed =>
        match.current_percent * Len(match.pixels)
            = 100 * Scale * Cardinality(InsideRange)

\* C23: a pixel counts as in range exactly when each of its three channels
\* lies within its two limits, both included; the match percentage is
\* 100 * count_in_range / len(samples) rounded to one decimal digit, lies in
\* [0, 100], and is 0 when a channel has its lower limit above its upper one.
C23_RoundedPercentage ==
    match.computed =>
        LET n == Len(match.pixels)
            k == Cardinality(InsideRange)
            d == match.current_percent * n - 100 * Scale * k
        IN  /\ 2 * Abs(d) <= n
            /\ 0 <= match.current_percent
            /\ match.current_percent <= 100 * Scale
            /\ (\E c \in 1..3 : match.min_color[c] > match.max_color[c])
                   => match.current_percent = 0

\* The percentage of a sample set with a pixel on a limit of the range, of
\* which one pixel in three is in range: 33.3.
C23_Witness ==
    /\ match.computed
    /\ 3 * Cardinality(InsideRange) = Len(match.pixels)
    /\ \E i \in InsideRange, c \in 1..3 :
           match.pixels[i][c] = match.min_color[c]
    /\ match.current_percent = 333


\* The next actions that go with a label.
ActionsOf(label) ==
    CASE label = STATE_OPEN           -> { NEXT_ACTION_CLOSE }
      [] label = STATE_CLOSED         -> { NEXT_ACTION_OPEN }
      [] label = STATE_CLOSING        -> { NEXT_ACTION_OPEN }
      [] label = STATE_OPENING        -> { NEXT_ACTION_CLOSE }
      [] label = STATE_PARTIALLY_OPEN -> { NEXT_ACTION_OPEN, NEXT_ACTION_CLOSE }
      [] label = STATE_UNKNOWN        -> { NEXT_ACTION_UNKNOWN }
      [] OTHER                        -> NextActions

\* C24: in every reachable state door_state and next_action are consistent:
\* Open goes with Close, Closed with Open, Closing with Open, Opening with
\* Close, PartiallyOpen with Open or Close, and Unknown with Unknown, also
\* after a configuration update whose refresh fails.
C24_LabelAndActionConsistent == next_action \in ActionsOf(door_state)

\* The same for the states in which the last thing that set the label was a
\* classification.
C24_ConsistentAfterClassification ==
    Classified => next_action \in ActionsOf(door_state)


\* C25: at the end of every successful update cycle the state published last
\* (the door_state and next_action written to Home Assistant and carried by
\* the event) equals the sensor's door_state and next_action: no change of
\* next_action is left unpublished.
C25_PublishedIsCurrent ==
    Applied =>
        /\ ha_state.state = door_state
        /\ ha_state.next_action = next_action

\* The same for the label alone.
C25_PublishedLabelIsCurrent == Applied => ha_state.state = door_state


\* C26: once async_will_remove_from_hass has run, no polling timer is
\* scheduled for the sensor in any later state, also when an update cycle
\* was in flight at the removal and ends afterwards.
C26_NoTimerAfterRemoval == phase = "removed" => timers = << >>

\* The removal itself leaves no timer.
C26_RemovalCancelsTimer ==
    [][ phase = "added" /\ phase' = "removed" => timers' = << >> ]_vars


\* The sensor remembers no percent: the fields as _handle_config_update
\* resets them.
Forgotten ==
    /\ door_state = STATE_UNKNOWN
    /\ percent_value = None
    /\ last_percent = None

\* C27: a configuration update discards the percent memory, whatever update
\* cycles are in flight: the update leaves the sensor without a percent, it
\* stays so until a sample is applied, and that sample is classified with no
\* previous percent, which gives Open, Closed or PartiallyOpen, never Opening
\* or Closing, and leaves active_mode as it was.
C27_ConfigUpdateForgetsPercent ==
    [][ /\ (\E c \in Configs, camera_ok \in BOOLEAN : ConfigUpdate(c, camera_ok))
            => Forgotten'
        /\ (Forgotten /\ ev'.kind # "applied" /\ phase' # "added")
            => Forgotten'
        /\ (Forgotten /\ phase = "added" /\ ev'.kind # "applied")
            => Forgotten'
        /\ (Forgotten /\ ev'.kind = "applied")
            => /\ ev'.classified
               /\ door_state' \in { STATE_OPEN, STATE_CLOSED,
                                    STATE_PARTIALLY_OPEN }
               /\ active_mode' = active_mode ]_vars

\* A cycle that was in flight when the configuration was updated applied its
\* sample first, with the refresh of the update still awaited.
C27_Witness ==
    /\ Applied /\ ~ev.force
    /\ ev.pre.percent_value = None
    /\ door_state \in { STATE_OPEN, STATE_CLOSED, STATE_PARTIALLY_OPEN }
    /\ tasks # << >> /\ tasks[1].reschedule

====
